---- MODULE Spec2Model ----
(***************************************************************************)
(* incline/trend.py: the three trend estimators (naive_trend,              *)
(* spline_trend, sgolay_trend) and the ranking function trending.          *)
(*                                                                         *)
(* A pandas DataFrame is a record [index, cols]: index is the sequence of  *)
(* row labels, cols maps a column name to the sequence of its cells.       *)
(* Numbers are exact rationals [num, den] (den > 0, lowest terms); NaN is  *)
(* a cell of its own.  The functions are pure, so a state holds the        *)
(* arguments of a call (df or df_list), the call made (call), what came    *)
(* back (ret) and whether the call has been made (pc).                     *)
(***************************************************************************)
EXTENDS Integers, Sequences, FiniteSets, TLC

VARIABLES pc, df, df_list, call, ret

vars == <<pc, df, df_list, call, ret>>

(***************************************************************************)
(* Bounds of the explored inputs.                                          *)
(***************************************************************************)
MaxRows == 3

MaxTotalRows == 3

MaxK == 2

(***************************************************************************)
(* Exact rational arithmetic.                                              *)
(***************************************************************************)
Abs(n) == IF n < 0 THEN -n ELSE n

Min(a, b) == IF a < b THEN a ELSE b

Max(a, b) == IF a < b THEN b ELSE a

RECURSIVE Gcd(_, _)
Gcd(a, b) == IF b = 0 THEN a ELSE Gcd(b, a % b)

Rat(n, d) ==
    LET g == Gcd(Abs(n), Abs(d))
        s == IF d < 0 THEN -1 ELSE 1
    IN  [num |-> (s * n) \div g, den |-> (s * d) \div g]

RInt(n) == [num |-> n, den |-> 1]

RAdd(a, b) == Rat(a.num * b.den + b.num * a.den, a.den * b.den)

RSub(a, b) == Rat(a.num * b.den - b.num * a.den, a.den * b.den)

RDivInt(a, n) == Rat(a.num, a.den * n)

RLeq(a, b) == a.num * b.den <= b.num * a.den

NaN == [nan |-> TRUE]

None == [none |-> TRUE]

IsNum(c) == DOMAIN c = {"num", "den"}

(***************************************************************************)
(* DataFrame and Series primitives of pandas used by trend.py.             *)
(***************************************************************************)
Table(idx, columns) == [index |-> idx, cols |-> columns]

NRows(T) == Len(T.index)

Columns(T) == DOMAIN T.cols

\* odf[name] = vals : adds the column, or overwrites it when it exists
SetCol(T, name, vals) ==
    Table(T.index,
          [c \in Columns(T) \cup {name} |-> IF c = name THEN vals ELSE T.cols[c]])

\* a column filled with one scalar, odf[name] = scalar
Broadcast(T, v) == [i \in 1..NRows(T) |-> v]

\* Series.shift(periods): the cells move by `periods` rows, NaN fills the gap
Shift(y, periods) ==
    [i \in 1..Len(y) |->
        IF i - periods \in 1..Len(y) THEN y[i - periods] ELSE NaN]

\* Series - Series, row by row; NaN propagates
SeriesSub(a, b) ==
    [i \in 1..Len(a) |->
        IF IsNum(a[i]) /\ IsNum(b[i]) THEN RSub(a[i], b[i]) ELSE NaN]

\* Series - scalar
ScalarSub(a, n) ==
    [i \in 1..Len(a) |-> IF IsNum(a[i]) THEN RSub(a[i], RInt(n)) ELSE NaN]

RECURSIVE SeqSum(_)
SeqSum(s) == IF s = <<>> THEN RInt(0) ELSE RAdd(s[1], SeqSum(Tail(s)))

RECURSIVE SeqMax(_)
SeqMax(s) ==
    IF Len(s) = 1 THEN s[1]
    ELSE LET m == SeqMax(Tail(s)) IN IF RLeq(m, s[1]) THEN s[1] ELSE m

\* the NaN cells are skipped (skipna=True); all-NaN or empty gives NaN
SkipNa(s) == SelectSeq(s, IsNum)

AggMean(s) ==
    LET v == SkipNa(s) IN
    IF v = <<>> THEN NaN ELSE RDivInt(SeqSum(v), Len(v))

AggMax(s) ==
    LET v == SkipNa(s) IN
    IF v = <<>> THEN NaN ELSE SeqMax(v)

\* DataFrame.mean(axis=1) over the two given columns
RowMean(a, b) == [i \in 1..Len(a) |-> AggMean(<<a[i], b[i]>>)]

(***************************************************************************)
(* What a call gives back: a table, or the exception that propagates.      *)
(***************************************************************************)
Returned(T) == [kind |-> "table", table |-> T]

Raised(e) == [kind |-> "error", exc |-> e]

NoCall == [kind |-> "none"]

(***************************************************************************)
(* naive_trend                                                             *)
(***************************************************************************)
\* naive_yy with the backward difference taken from the right neighbour
naive_yy_neighbour(y) ==
    LET y_1 == Shift(y, 1)
        y_2 == Shift(y, -1)
        y1_diff == SeriesSub(y_1, y)
        yneg1_diff == SeriesSub(y, y_2)
    IN  [orig |-> y, plus_1 |-> y_1, min_1 |-> y_2,
         plus_1_diff |-> y1_diff, min_1_diff |-> yneg1_diff]

\* the intermediate frame yy of naive_trend
naive_yy(y) ==
    LET y_1 == Shift(y, 1)
        y_2 == Shift(y, -1)
        y1_diff == SeriesSub(y_1, y)
        yneg1_diff == ScalarSub(SeriesSub(y, y), 2)
    IN  [orig |-> y, plus_1 |-> y_1, min_1 |-> y_2,
         plus_1_diff |-> y1_diff, min_1_diff |-> yneg1_diff]

\* naive_trend building its result on a table with a fresh index
naive_trend_reindexed(d, column_value) ==
    IF column_value \notin Columns(d) THEN Raised("KeyError")
    ELSE
      LET yy == naive_yy(d.cols[column_value])
          o0 == Table([i \in 1..NRows(d) |-> i - 1], d.cols)
          o1 == SetCol(o0, "derivative_value",
                       RowMean(yy.plus_1_diff, yy.min_1_diff))
          o2 == SetCol(o1, "derivative_method", Broadcast(d, "naive"))
          o3 == SetCol(o2, "function_order", Broadcast(d, None))
          o4 == SetCol(o3, "derivative_order", Broadcast(d, 1))
      IN  Returned(o4)

naive_trend(d, column_value) ==
    IF column_value \notin Columns(d) THEN Raised("KeyError")
    ELSE
      LET yy == naive_yy(d.cols[column_value])
          o1 == SetCol(d, "derivative_value",
                       RowMean(yy.plus_1_diff, yy.min_1_diff))
          o2 == SetCol(o1, "derivative_method", Broadcast(d, "naive"))
          o3 == SetCol(o2, "function_order", Broadcast(d, None))
          o4 == SetCol(o3, "derivative_order", Broadcast(d, 1))
      IN  Returned(o4)

(***************************************************************************)
(* The two numerical routines of scipy the estimators call.  Their values  *)
(* are opaque: a fitted value is the term naming the fit, the position and *)
(* the derivative taken.  Their argument checks decide when a call fails.  *)
(***************************************************************************)
\* scipy.interpolate.UnivariateSpline(x, y, k=function_order, s=s)
UnivariateSpline(x, y, k, s) ==
    IF k \notin 1..5 \/ Len(x) <= k THEN Raised("ValueError")
    ELSE [kind |-> "spline", x |-> x, y |-> y, k |-> k, s |-> s]

\* spl(x, nu=nu): the nu-th derivative of the spline at every x
SplineEval(spl, x, nu) ==
    IF nu \notin 0..spl.k THEN Raised("ValueError")
    ELSE [kind |-> "values",
          values |-> [i \in 1..Len(x) |->
                        [fit |-> spl, at |-> x[i], deriv |-> nu]]]

\* scipy.signal.savgol_filter(y, window_length, polyorder, deriv), mode='interp'
savgol_filter(y, window_length, polyorder, deriv) ==
    IF \/ window_length < 1
       \/ window_length % 2 = 0
       \/ polyorder >= window_length
       \/ window_length > Len(y)
    THEN Raised("ValueError")
    ELSE [kind |-> "values",
          values |-> [i \in 1..Len(y) |->
                        [fit |-> [kind |-> "sgolay", y |-> y,
                                 window_length |-> window_length,
                                 polyorder |-> polyorder],
                         at |-> i - 1, deriv |-> deriv]]]

(***************************************************************************)
(* spline_trend                                                            *)
(***************************************************************************)
\* df.reset_index().index.values : the row positions 0 .. n-1
RowPositions(d) == [i \in 1..NRows(d) |-> i - 1]

\* spline_trend with the two order tags assigned crosswise
spline_trend_swapped(d, column_value, function_order, derivative_order, s) ==
    IF column_value \notin Columns(d) THEN Raised("KeyError")
    ELSE
      LET x == RowPositions(d)
          y == d.cols[column_value]
          spl == UnivariateSpline(x, y, function_order, s)
      IN  IF spl.kind = "error" THEN spl
          ELSE
            LET sm == SplineEval(spl, x, 0)
                dv == SplineEval(spl, x, derivative_order)
            IN  IF sm.kind = "error" THEN sm
                ELSE IF dv.kind = "error" THEN dv
                ELSE
                  LET o1 == SetCol(d, "smoothed_value", sm.values)
                      o2 == SetCol(o1, "derivative_value", dv.values)
                      o3 == SetCol(o2, "function_order",
                                   Broadcast(d, derivative_order))
                      o4 == SetCol(o3, "derivative_method",
                                   Broadcast(d, "spline"))
                      o5 == SetCol(o4, "derivative_order",
                                   Broadcast(d, function_order))
                  IN  Returned(o5)

spline_trend(d, column_value, function_order, derivative_order, s) ==
    IF column_value \notin Columns(d) THEN Raised("KeyError")
    ELSE
      LET x == RowPositions(d)
          y == d.cols[column_value]
          spl == UnivariateSpline(x, y, function_order, s)
      IN  IF spl.kind = "error" THEN spl
          ELSE
            LET sm == SplineEval(spl, x, 0)
                dv == SplineEval(spl, x, derivative_order)
            IN  IF sm.kind = "error" THEN sm
                ELSE IF dv.kind = "error" THEN dv
                ELSE
                  LET o1 == SetCol(d, "smoothed_value", sm.values)
                      o2 == SetCol(o1, "derivative_value", dv.values)
                      o3 == SetCol(o2, "function_order",
                                   Broadcast(d, function_order))
                      o4 == SetCol(o3, "derivative_method",
                                   Broadcast(d, "spline"))
                      o5 == SetCol(o4, "derivative_order",
                                   Broadcast(d, derivative_order))
                  IN  Returned(o5)

(***************************************************************************)
(* sgolay_trend                                                            *)
(***************************************************************************)
\* sgolay_trend shortening a window that is longer than the series
sgolay_trend_clipped(d, column_value, function_order, derivative_order, window_length) ==
    IF column_value \notin Columns(d) THEN Raised("KeyError")
    ELSE
      LET y == d.cols[column_value]
          wl == Min(window_length, Len(y))
          sm == savgol_filter(y, wl, function_order, 0)
          dv == savgol_filter(y, wl, function_order, derivative_order)
      IN  IF sm.kind = "error" THEN sm
          ELSE IF dv.kind = "error" THEN dv
          ELSE
            LET o1 == SetCol(d, "smoothed_value", sm.values)
                o2 == SetCol(o1, "derivative_value", dv.values)
                o3 == SetCol(o2, "function_order",
                             Broadcast(d, function_order))
                o4 == SetCol(o3, "derivative_method", Broadcast(d, "sgolay"))
                o5 == SetCol(o4, "derivative_order",
                             Broadcast(d, derivative_order))
            IN  Returned(o5)

sgolay_trend(d, column_value, function_order, derivative_order, window_length) ==
    IF column_value \notin Columns(d) THEN Raised("KeyError")
    ELSE
      LET y == d.cols[column_value]
          sm == savgol_filter(y, window_length, function_order, 0)
          dv == savgol_filter(y, window_length, function_order,
                              derivative_order)
      IN  IF sm.kind = "error" THEN sm
          ELSE IF dv.kind = "error" THEN dv
          ELSE
            LET o1 == SetCol(d, "smoothed_value", sm.values)
                o2 == SetCol(o1, "derivative_value", dv.values)
                o3 == SetCol(o2, "function_order",
                             Broadcast(d, function_order))
                o4 == SetCol(o3, "derivative_method", Broadcast(d, "sgolay"))
                o5 == SetCol(o4, "derivative_order",
                             Broadcast(d, derivative_order))
            IN  Returned(o5)

(***************************************************************************)
(* trending                                                                *)
(***************************************************************************)
\* the row positions of T, as a sequence
Positions(T) == [i \in 1..NRows(T) |-> i]

\* T.iloc[pos] : the rows at the given positions, labels kept
TakeRows(T, pos) ==
    Table([j \in 1..Len(pos) |-> T.index[pos[j]]],
          [c \in Columns(T) |-> [j \in 1..Len(pos) |-> T.cols[c][pos[j]]]])

\* df[df.derivative_order == derivative_order]
SelectOrder(T, derivative_order) ==
    TakeRows(T, SelectSeq(Positions(T),
                          LAMBDA i : T.cols.derivative_order[i] = derivative_order))

\* SliceStart reading a start of 0 as "the last 0 rows"
SliceStart_ZeroEmpty(start, n) ==
    IF start < 0 THEN Max(n + start, 0)
    ELSE IF start = 0 THEN n ELSE Min(start, n)

\* the start of the Python slice [start:] on n rows, as a 0-based position
SliceStart(start, n) ==
    IF start < 0 THEN Max(n + start, 0) ELSE Min(start, n)

\* T[-k:]
LastK(T, k) ==
    TakeRows(T, SubSeq(Positions(T), SliceStart(-k, NRows(T)) + 1, NRows(T)))

\* TailWindows slicing the last k rows before selecting the order
TailWindows_SliceFirst(dfs, derivative_order, k) ==
    [i \in 1..Len(dfs) |-> SelectOrder(LastK(dfs[i], k), derivative_order)]

\* the list cdf built by the loop of trending
TailWindows(dfs, derivative_order, k) ==
    [i \in 1..Len(dfs) |-> LastK(SelectOrder(dfs[i], derivative_order), k)]

RECURSIVE ConcatCol(_, _)
ConcatCol(tables, c) ==
    IF tables = <<>> THEN <<>>
    ELSE (IF c \in Columns(tables[1]) THEN tables[1].cols[c]
          ELSE Broadcast(tables[1], NaN)) \o ConcatCol(Tail(tables), c)

RECURSIVE ConcatIndex(_)
ConcatIndex(tables) ==
    IF tables = <<>> THEN <<>>
    ELSE tables[1].index \o ConcatIndex(Tail(tables))

\* pd.concat(cdf, sort=False); an empty list has nothing to concatenate
Concat(tables) ==
    IF tables = <<>> THEN Raised("ValueError")
    ELSE Returned(Table(ConcatIndex(tables),
              [c \in UNION {Columns(tables[i]) : i \in 1..Len(tables)} |->
                  ConcatCol(tables, c)]))

\* the ids the model draws, in the order groupby sorts its keys
IdOrder == <<"A", "B">>

\* GroupKeys giving one key per row
GroupKeys_PerRow(T) == T.cols.id

\* the group keys of groupby('id'): distinct, sorted
GroupKeys(T) ==
    SelectSeq(IdOrder, LAMBDA x : \E j \in 1..NRows(T) : T.cols.id[j] = x)

\* the derivative_value cells of the group of key x, in row order
GroupValues(T, x) ==
    LET pos == SelectSeq(Positions(T), LAMBDA j : T.cols.id[j] = x)
    IN  [j \in 1..Len(pos) |-> T.cols.derivative_value[pos[j]]]

Aggregate(how, s) == IF how = "mean" THEN AggMean(s) ELSE AggMax(s)

\* tdf.groupby('id').agg({'derivative_value': how}), reset_index, renamed
GroupAgg(T, how) ==
    LET keys == GroupKeys(T)
    IN  Table([i \in 1..Len(keys) |-> i - 1],
              [id |-> keys,
               max_or_avg |-> [i \in 1..Len(keys) |->
                                 Aggregate(how, GroupValues(T, keys[i]))]])

\* trending aggregating each table before pooling the tables
trending_per_table(dfs, derivative_order, max_or_avg, k) ==
    LET cdf == TailWindows(dfs, derivative_order, k)
        how == IF max_or_avg = "avg" THEN "mean" ELSE max_or_avg
        per == [i \in 1..Len(cdf) |->
                  LET g == GroupAgg(cdf[i], how)
                  IN  Table(g.index, [id |-> g.cols.id,
                                      derivative_value |-> g.cols.max_or_avg])]
        tdf == Concat(per)
    IN  IF tdf.kind = "error" THEN tdf
        ELSE Returned(GroupAgg(tdf.table, how))

trending(dfs, derivative_order, max_or_avg, k) ==
    LET cdf == TailWindows(dfs, derivative_order, k)
        tdf == Concat(cdf)
        how == IF max_or_avg = "avg" THEN "mean" ELSE max_or_avg
    IN  IF tdf.kind = "error" THEN tdf
        ELSE Returned(GroupAgg(tdf.table, how))

(***************************************************************************)
(* The inputs explored.                                                    *)
(***************************************************************************)
YVals == {RInt(0), RInt(1), RInt(3)}

IndexKinds == {"range", "labels"}

\* a RangeIndex 0 .. n-1, or labels that differ from the positions
IndexOf(kind, n) ==
    [i \in 1..n |-> IF kind = "range" THEN i - 1 ELSE 10 * i]

\* what the input table holds besides its value column
ExtraCols == {"none", "id", "derivative_value"}

InputTable(y, kind, extra) ==
    LET base == Table(IndexOf(kind, Len(y)), [value |-> y])
    IN  IF extra = "id" THEN SetCol(base, "id", Broadcast(base, "A"))
        ELSE IF extra = "derivative_value"
             THEN SetCol(base, "derivative_value", Broadcast(base, RInt(7)))
        ELSE base

NoTable == InputTable(<<>>, "range", "none")

ColumnValues == {"value", "derivative_value"}

FunctionOrders == {0, 1, 2}

DerivOrders == {1, 2}

Smoothings == {3}

WindowLengths == {1, 2, 3, 5}

Ids == {IdOrder[i] : i \in 1..Len(IdOrder)}

DVals == {RInt(0), RInt(3)}

\* a row of a table handed to trending; the rows of the first derivative
\* take either value, the rows of the second derivative the one value
RankRows ==
    { r \in [id : Ids, derivative_order : DerivOrders, derivative_value : DVals] :
        r.derivative_order = 1 \/ r.derivative_value = RInt(3) }

RECURSIVE ShapeSum(_)
ShapeSum(sh) == IF sh = <<>> THEN 0 ELSE sh[1] + ShapeSum(Tail(sh))

\* the row counts of the tables of a list: every table has a row (it is the
\* trend table of a series), and the list may be empty
Shapes ==
    { sh \in UNION {[1..m -> 1..MaxTotalRows] : m \in 0..MaxTotalRows} :
        ShapeSum(sh) <= MaxTotalRows }

RowsTable(rows) ==
    Table(IndexOf("range", Len(rows)),
          [c \in {"id", "derivative_order", "derivative_value"} |->
              [i \in 1..Len(rows) |-> rows[i][c]]])

\* the list of tables of the given row counts holding the given rows
RECURSIVE Cut(_, _)
Cut(rows, sh) ==
    IF sh = <<>> THEN <<>>
    ELSE <<RowsTable(SubSeq(rows, 1, sh[1]))>>
         \o Cut(SubSeq(rows, sh[1] + 1, Len(rows)), Tail(sh))

(***************************************************************************)
(* The state machine: the arguments of one call are drawn, then the call   *)
(* is made.  pc tells which argument the run has drawn: a table for one of *)
(* the estimators, or a list of tables for the ranking.  The functions     *)
(* share no state, so a run is one call.                                   *)
(***************************************************************************)
Init ==
    /\ call = [fn |-> "none"]
    /\ ret = NoCall
    /\ \/ /\ pc = "estimate"
          /\ \E n \in 0..MaxRows : \E y \in [1..n -> YVals] :
             \E kind \in IndexKinds, extra \in ExtraCols :
                df = InputTable(y, kind, extra)
          /\ df_list = <<>>
       \/ /\ pc = "rank"
          /\ df = NoTable
          /\ \E sh \in Shapes : \E rows \in [1..ShapeSum(sh) -> RankRows] :
                df_list = Cut(rows, sh)

NaiveTrend ==
    /\ pc = "estimate"
    /\ \E cv \in ColumnValues :
        /\ call' = [fn |-> "naive_trend", column_value |-> cv]
        /\ ret' = naive_trend(df, cv)
    /\ pc' = "done"
    /\ UNCHANGED <<df, df_list>>

SplineTrend ==
    /\ pc = "estimate"
    /\ \E cv \in ColumnValues, fo \in FunctionOrders, do \in DerivOrders,
          s \in Smoothings :
        /\ call' = [fn |-> "spline_trend", column_value |-> cv,
                    function_order |-> fo, derivative_order |-> do, s |-> s]
        /\ ret' = spline_trend(df, cv, fo, do, s)
    /\ pc' = "done"
    /\ UNCHANGED <<df, df_list>>

SgolayTrend ==
    /\ pc = "estimate"
    /\ \E cv \in ColumnValues, fo \in FunctionOrders, do \in DerivOrders,
          wl \in WindowLengths :
        /\ call' = [fn |-> "sgolay_trend", column_value |-> cv,
                    function_order |-> fo, derivative_order |-> do,
                    window_length |-> wl]
        /\ ret' = sgolay_trend(df, cv, fo, do, wl)
    /\ pc' = "done"
    /\ UNCHANGED <<df, df_list>>

Trending ==
    /\ pc = "rank"
    /\ \E do \in DerivOrders, how \in {"max", "avg"}, k \in -1..MaxK :
        /\ call' = [fn |-> "trending", derivative_order |-> do,
                    max_or_avg |-> how, k |-> k]
        /\ ret' = trending(df_list, do, how, k)
    /\ pc' = "done"
    /\ UNCHANGED <<df, df_list>>

Next == NaiveTrend \/ SplineTrend \/ SgolayTrend \/ Trending

Spec == Init /\ [][Next]_vars

(***************************************************************************)
(* Vocabulary of the properties.                                           *)
(***************************************************************************)
Called(fn) == pc = "done" /\ call.fn = fn

GaveTable(fn) == Called(fn) /\ ret.kind = "table"

EstimatorGaveTable ==
    GaveTable("naive_trend") \/ GaveTable("spline_trend")
        \/ GaveTable("sgolay_trend")

Cells(s) == {s[i] : i \in 1..Len(s)}

\* the ids of the returned ranking table
RankIds == Cells(ret.table.cols.id)

\* the score the ranking table reports for id x
ScoreOf(x) ==
    LET i == CHOOSE i \in 1..NRows(ret.table) : ret.table.cols.id[i] = x
    IN  ret.table.cols.max_or_avg[i]

\* the ids occurring in any table of the input list
InputIds == UNION {Cells(df_list[i].cols.id) : i \in 1..Len(df_list)}

NoIdRepeated ==
    \A i, j \in 1..NRows(ret.table) :
        ret.table.cols.id[i] = ret.table.cols.id[j] => i = j

\* row j of table T has the requested derivative_order
Matches(T, j) == T.cols.derivative_order[j] = call.derivative_order

\* row j of T is a matching row inside the slice [-k:] of T's matching rows
InWindow(T, j, k) ==
    LET after == Cardinality({i \in j+1..NRows(T) : Matches(T, i)})
        before == Cardinality({i \in 1..j-1 : Matches(T, i)})
    IN  /\ Matches(T, j)
        /\ IF k > 0 THEN after < k ELSE IF k = 0 THEN TRUE ELSE before >= -k

\* the derivative_value cells of the rows j of T with id x that satisfy P(T, j)
PickValues(T, x, P(_, _)) ==
    LET pos == SelectSeq(Positions(T),
                         LAMBDA j : T.cols.id[j] = x /\ P(T, j))
    IN  [n \in 1..Len(pos) |-> T.cols.derivative_value[pos[n]]]

InCallWindow(T, j) == InWindow(T, j, call.k)

\* the cells of id x that table T contributes to the call made
WindowValues(T, x) == PickValues(T, x, InCallWindow)

\* all the cells of id x in T with the requested derivative_order
MatchingValues(T, x) == PickValues(T, x, Matches)

\* the cells of id x that the tables i, i+1, ... of the list contribute
RECURSIVE PooledWindows(_, _)
PooledWindows(i, x) ==
    IF i > Len(df_list) THEN <<>>
    ELSE WindowValues(df_list[i], x) \o PooledWindows(i + 1, x)

\* all the matching cells of id x in the tables i, i+1, ... of the list
RECURSIVE PooledMatching(_, _)
PooledMatching(i, x) ==
    IF i > Len(df_list) THEN <<>>
    ELSE MatchingValues(df_list[i], x) \o PooledMatching(i + 1, x)

IsMaxOf(v, W) == v \in Cells(W) /\ \A w \in Cells(W) : RLeq(w, v)

IsMeanOf(v, W) ==
    LET sum == SeqSum(W) IN v.num * sum.den * Len(W) = sum.num * v.den

\* v is the aggregate the call asked for, over the non-empty sequence W
IsAggregateOf(v, W) ==
    IF call.max_or_avg = "max" THEN IsMaxOf(v, W) ELSE IsMeanOf(v, W)

\* the ranking table reports for x exactly the aggregate of W, or no row
\* when W is empty
Reports(x, W) ==
    IF W = <<>> THEN x \notin RankIds
    ELSE x \in RankIds /\ IsAggregateOf(ScoreOf(x), W)

SelectedIds ==
    { x \in Ids : \E i \in 1..Len(df_list) : \E j \in 1..NRows(df_list[i]) :
        df_list[i].cols.id[j] = x /\ InWindow(df_list[i], j, call.k) }

C2_SortedMaxToMin ==
    GaveTable("trending") =>
        \A i \in 1..NRows(ret.table) - 1 :
            RLeq(ret.table.cols.max_or_avg[i + 1], ret.table.cols.max_or_avg[i])

\* the series naive_trend differentiates, and the column it returns
NaiveY == df.cols[call.column_value]

NaiveDerivative == ret.table.cols.derivative_value

(***************************************************************************)
(* C3.  As claimed: for naive_trend on a series of n >= 2 rows,            *)
(* derivative_value is the average of the forward difference y[i+1]-y[i]   *)
(* and the backward difference y[i]-y[i-1] at every interior row, the      *)
(* forward difference alone at the first row and the backward difference   *)
(* alone at the last row.                                                  *)
(***************************************************************************)
C3_CenteredDifference ==
    GaveTable("naive_trend") /\ Len(NaiveY) >= 2 =>
        LET y == NaiveY
            n == Len(y)
        IN  /\ NaiveDerivative[1] = RSub(y[2], y[1])
            /\ NaiveDerivative[n] = RSub(y[n], y[n - 1])
            /\ \A i \in 2..n - 1 :
                 NaiveDerivative[i] =
                    RDivInt(RAdd(RSub(y[i + 1], y[i]), RSub(y[i], y[i - 1])), 2)

\* every table holds at most one id and no id is in two tables
SingleIdTables ==
    /\ \A i \in 1..Len(df_list) : Cardinality(Cells(df_list[i].cols.id)) <= 1
    /\ \A i, j \in 1..Len(df_list) :
         i # j => Cells(df_list[i].cols.id) \cap Cells(df_list[j].cols.id) = {}

\* the derivative_value cells of the rows of T of the requested order
MatchingRows(T) ==
    LET pos == SelectSeq(Positions(T), LAMBDA j : Matches(T, j))
    IN  [n \in 1..Len(pos) |-> T.cols.derivative_value[pos[n]]]

(***************************************************************************)
(* C4.  When trending is called with k >= 1 on tables that each carry a    *)
(* single id shared with no other table, the score of a table's id is the  *)
(* aggregate (max, or mean for 'avg') of derivative_value over the last    *)
(* min(k, m) of the table's m rows of the requested derivative_order, in   *)
(* row order; rows of another derivative_order never contribute.           *)
(***************************************************************************)
C4_LastKOfMatchingRows ==
    GaveTable("trending") /\ call.k >= 1 /\ SingleIdTables =>
        \A i \in 1..Len(df_list) : \A x \in Cells(df_list[i].cols.id) :
            LET M == MatchingRows(df_list[i])
                m == Len(M)
            IN  Reports(x, SubSeq(M, m - Min(call.k, m) + 1, m))

\* a table whose last row is of another order and whose matching rows
\* outnumber k and differ
C4_Witness ==
    /\ GaveTable("trending") /\ call.k = 1 /\ SingleIdTables
    /\ \E i \in 1..Len(df_list) :
         LET T == df_list[i] IN
         /\ NRows(T) = 3
         /\ Matches(T, 1) /\ Matches(T, 2) /\ ~Matches(T, 3)
         /\ T.cols.derivative_value[1] # T.cols.derivative_value[2]
         /\ T.cols.derivative_value[3] # T.cols.derivative_value[2]
         /\ ScoreOf(T.cols.id[1]) = T.cols.derivative_value[2]

SameRows ==
    /\ ret.table.index = df.index
    /\ \A c \in Columns(ret.table) : Len(ret.table.cols[c]) = NRows(df)

(***************************************************************************)
(* C5.  As claimed: a table returned by naive_trend, spline_trend or       *)
(* sgolay_trend has the rows, the index and the row order of the input,    *)
(* and every column of the input is carried over unchanged.                *)
(***************************************************************************)
C5_InputCarriedOver ==
    EstimatorGaveTable =>
        /\ SameRows
        /\ \A c \in Columns(df) : ret.table.cols[c] = df.cols[c]

\* the columns an estimator assigns
WrittenColumns ==
    {"derivative_value", "derivative_method", "function_order",
     "derivative_order"}
        \cup (IF call.fn = "naive_trend" THEN {} ELSE {"smoothed_value"})

(***************************************************************************)
(* C5, amended.  A table returned by naive_trend, spline_trend or          *)
(* sgolay_trend has the rows, the index and the row order of the input,    *)
(* and every column of the input is carried over unchanged except a        *)
(* column named like one the estimator assigns (derivative_value,          *)
(* derivative_method, function_order, derivative_order, and smoothed_value *)
(* for spline_trend and sgolay_trend), which is overwritten.               *)
(***************************************************************************)
C5_RowsAndOtherColumnsCarriedOver ==
    EstimatorGaveTable =>
        /\ SameRows
        /\ \A c \in Columns(df) \ WrittenColumns :
             ret.table.cols[c] = df.cols[c]
        /\ Columns(ret.table) = Columns(df) \cup WrittenColumns

C5_Witness ==
    /\ GaveTable("sgolay_trend")
    /\ NRows(df) = 3
    /\ df.index # RowPositions(df)
    /\ "derivative_value" \in Columns(df)
    /\ ret.table.cols.derivative_value # df.cols.derivative_value
    /\ ret.table.cols.value = df.cols.value

(***************************************************************************)
(* C6.  sgolay_trend called with a window_length greater than the number   *)
(* of rows of the input fails with an error and returns no table, and the  *)
(* call leaves the input table unchanged.                                  *)
(***************************************************************************)
C6_WindowLongerThanSeriesFails ==
    /\ [](Called("sgolay_trend") /\ call.window_length > NRows(df)
            => ret.kind = "error")
    /\ [][call'.fn = "sgolay_trend" => df' = df]_vars

\* a window that is odd and above the polynomial order, only too long
C6_Witness ==
    /\ Called("sgolay_trend")
    /\ call.column_value \in Columns(df)
    /\ NRows(df) = 3
    /\ call.window_length = 5
    /\ call.function_order = 2
    /\ ret.kind = "error"

TagOf(fn) ==
    IF fn = "naive_trend" THEN "naive"
    ELSE IF fn = "spline_trend" THEN "spline" ELSE "sgolay"

(***************************************************************************)
(* C7.  Every row of a table returned by an estimator carries its tags:    *)
(* spline_trend and sgolay_trend set function_order and derivative_order   *)
(* to the arguments passed and derivative_method to 'spline' resp.         *)
(* 'sgolay'; naive_trend sets 'naive', derivative_order 1 and              *)
(* function_order None.  So the selection trending makes for               *)
(* derivative_order d keeps rows of such a table only if the estimator     *)
(* was called with derivative_order d.                                     *)
(***************************************************************************)
C7_TagsAsPassed ==
    EstimatorGaveTable =>
        LET T == ret.table
            order == IF call.fn = "naive_trend" THEN 1
                     ELSE call.derivative_order
        IN  /\ \A i \in 1..NRows(T) :
                /\ T.cols.derivative_method[i] = TagOf(call.fn)
                /\ T.cols.derivative_order[i] = order
                /\ IF call.fn = "naive_trend"
                   THEN T.cols.function_order[i] = None
                   ELSE T.cols.function_order[i] = call.function_order
            /\ \A d \in 0..3 : NRows(SelectOrder(T, d)) > 0 => d = order

C7_Witness ==
    /\ GaveTable("spline_trend")
    /\ NRows(ret.table) = 3
    /\ call.derivative_order = 1
    /\ call.function_order = 2
    /\ NRows(SelectOrder(ret.table, 1)) = 3
    /\ NRows(SelectOrder(ret.table, 2)) = 0

\* the derivative naive_trend gives at row i when y[i+1] is replaced by v
NaiveWithNext(i, v) ==
    LET y2 == [NaiveY EXCEPT ![i + 1] = v]
        d2 == SetCol(df, call.column_value, y2)
    IN  naive_trend(d2, call.column_value).table.cols.derivative_value[i]

(***************************************************************************)
(* C8.  In naive_trend the backward-difference term min_1_diff is -2 at    *)
(* every row whatever the data, so derivative_value is -2 at the first row *)
(* and ((y[i-1] - y[i]) - 2) / 2 at every later row i; derivative_value at *)
(* row i does not depend on y[i+1].                                        *)
(***************************************************************************)
C8_ConstantBackwardTerm ==
    GaveTable("naive_trend") =>
        LET y == NaiveY
            n == Len(y)
        IN  /\ \A i \in 1..n : naive_yy(y).min_1_diff[i] = RInt(-2)
            /\ n >= 1 => NaiveDerivative[1] = RInt(-2)
            /\ \A i \in 2..n :
                 NaiveDerivative[i] =
                    RDivInt(RSub(RSub(y[i - 1], y[i]), RInt(2)), 2)
            /\ \A i \in 1..n - 1 : \A v \in YVals :
                 NaiveWithNext(i, v) = NaiveDerivative[i]

\* a series whose three values differ, so each neighbour would show
C8_Witness ==
    /\ GaveTable("naive_trend")
    /\ Len(NaiveY) = 3
    /\ NaiveY[1] # NaiveY[2] /\ NaiveY[2] # NaiveY[3] /\ NaiveY[1] # NaiveY[3]
    /\ NaiveDerivative[2] # RInt(-2)

(***************************************************************************)
(* C9.  trending aggregates over the pooled windows: the one score         *)
(* reported for an id is the aggregate (max or mean) of derivative_value   *)
(* over all the selected rows carrying that id in all the tables of the    *)
(* list, not a reduction per table; for 'avg' it is the mean over all the  *)
(* pooled rows, not the mean of the tables' means.                         *)
(***************************************************************************)
C9_PooledAggregate ==
    GaveTable("trending") =>
        \A x \in Ids : Reports(x, PooledWindows(1, x))

\* the mean of the means each table would give for id x
MeanOfTableMeans(x) ==
    LET tabs == SelectSeq([i \in 1..Len(df_list) |-> i],
                          LAMBDA i : WindowValues(df_list[i], x) # <<>>)
    IN  AggMean([n \in 1..Len(tabs) |->
                    AggMean(WindowValues(df_list[tabs[n]], x))])

\* an id in the windows of two tables whose pooled mean is not the mean of
\* the two means
C9_Witness ==
    /\ GaveTable("trending") /\ call.max_or_avg = "avg"
    /\ Len(df_list) = 2
    /\ \E x \in Ids :
         /\ WindowValues(df_list[1], x) # <<>>
         /\ WindowValues(df_list[2], x) # <<>>
         /\ x \in RankIds
         /\ ScoreOf(x) # MeanOfTableMeans(x)

\* the largest number of matching rows in a table of the list
MostMatching ==
    LET counts == {Len(MatchingRows(df_list[i])) : i \in 1..Len(df_list)}
    IN  IF counts = {} THEN 0 ELSE CHOOSE c \in counts : \A e \in counts : e <= c

(***************************************************************************)
(* C10.  With k = 0 trending selects no empty window: the slice keeps      *)
(* every row of the requested derivative_order, so the score of an id is   *)
(* the aggregate over all its matching rows, and the result is the one of  *)
(* any k that is at least the number of matching rows.                     *)
(***************************************************************************)
C10_ZeroKeepsAllRows ==
    GaveTable("trending") /\ call.k = 0 =>
        /\ \A x \in Ids : Reports(x, PooledMatching(1, x))
        /\ LET most == MostMatching IN
           \A kk \in Max(1, most)..MaxTotalRows :
                trending(df_list, call.derivative_order, call.max_or_avg, kk)
                    = ret

C10_Witness ==
    /\ GaveTable("trending") /\ call.k = 0 /\ call.max_or_avg = "avg"
    /\ \E x \in Ids :
         /\ Len(PooledMatching(1, x)) = 3
         /\ Cardinality(Cells(PooledMatching(1, x))) = 2
         /\ x \in RankIds

====
